---- MODULE Spec2Model ----
(***************************************************************************)
(* Model of the membership QR-login application (src/app.py,               *)
(* src/database.py): the signed-token codec, the member / admin session    *)
(* kept in the client's cookie, the users and login_logs tables, and the   *)
(* request handlers that read and write them.                              *)
(*                                                                         *)
(* One client is modelled: its cookie session can hold the member keys and *)
(* the admin keys at the same time, so one client reaches every            *)
(* combination of store and session contents.                              *)
(***************************************************************************)
EXTENDS Integers, Sequences, FiniteSets, TLC

(***************************************************************************)
(* Data                                                                    *)
(***************************************************************************)

\* Absent dictionary key / missing form field (Python None).
None == "None"

\* Member identifiers that requests may name (users.member_id, TEXT PRIMARY KEY).
MemberIds == {"M1", "M2"}

\* Column default of users.password (database.py line 68).
DefaultPassword == "123456"

\* Passwords typed into the login form: empty, the default, another one.
LoginPasswords == {"", "123456", "abcdef"}

\* The only row of admin_users (database.py lines 93-96).
AdminUsername == "admin"
AdminPassword == "admin123"

\* Longest login_logs table explored.
MaxLogs == 3

\* Minimum length of a password a member may choose (app.py line 575).
MinOwnPasswordLen == 6

(***************************************************************************)
(* Token codec: itsdangerous.URLSafeSerializer(SECRET_TOKEN_KEY).          *)
(* A token is  payload "." signature :                                     *)
(*   payload   = url-safe base64 of the JSON text {"member_id": m}         *)
(*   signature = url-safe base64, padding stripped, of the keyed digest    *)
(*               (HMAC) of the payload text.                               *)
(* The digest does not fill a whole number of characters (SHA-1: 160 bits  *)
(* in 27 characters of 6 bits), so the low bits of the last signature      *)
(* character are unused: the encoder writes them as zero and the decoder   *)
(* (base64.urlsafe_b64decode) discards them before the digests are         *)
(* compared.  The model keeps that structure at a small scale: characters  *)
(* of CharBits bits, a digest of DigestBits bits.                          *)
(***************************************************************************)

\* Bits carried by one character of the token alphabet (base64: 6).
CharBits == 2

Radix == 2 ^ CharBits

\* The alphabet characters are 0 .. Radix-1; the separator "." is one more symbol.
Sep == Radix

Symbols == 0 .. Radix

\* Width of the digest: two characters and part of a third.
DigestBits == 2 * CharBits + 1

DigestMod == 2 ^ DigestBits

\* Characters needed to write a digest.
SigLen == (DigestBits + CharBits - 1) \div CharBits

\* Unused low bits of the last signature character.
PadBits == SigLen * CharBits - DigestBits

\* The secret the application signs with (app.py line 15), and any other secret.
SECRET_TOKEN_KEY == "super-secret-key-change-this"

OtherSecret == "another-secret"

Secrets == {SECRET_TOKEN_KEY, OtherSecret}

KeyIndex(k) == IF k = SECRET_TOKEN_KEY THEN 0 ELSE 1

InvalidToken == "InvalidToken"

\* The payload text of {'member_id': m}: one alphabet character per identifier.
\* Characters 0 and Radix-1 are payload texts that do not parse.
PayloadOf(m) == IF m = "M1" THEN <<1>> ELSE <<2>>

\* The payload text parsed back; a text that is no JSON object raises.
LoadPayload(value) ==
  IF \E m \in MemberIds : PayloadOf(m) = value
  THEN CHOOSE m \in MemberIds : PayloadOf(m) = value
  ELSE InvalidToken

\* Digest input folded to a number; distinct texts of the explored lengths
\* give distinct numbers.
RECURSIVE TextNumber(_)
TextNumber(v) ==
  IF v = <<>> THEN 0
  ELSE TextNumber(SubSeq(v, 1, Len(v) - 1)) * (Radix + 2) + (v[Len(v)] + 1)

\* Keyed digest of a text: differs when the key or the text differs.
Mac(k, v) == (TextNumber(v) * Cardinality(Secrets) + KeyIndex(k)) % DigestMod

\* Digits of n in base Radix, most significant first, len digits.
RECURSIVE Digits(_, _)
Digits(n, len) ==
  IF len = 0 THEN <<>>
  ELSE Append(Digits(n \div Radix, len - 1), n % Radix)

RECURSIVE Number(_)
Number(s) ==
  IF s = <<>> THEN 0
  ELSE Number(SubSeq(s, 1, Len(s) - 1)) * Radix + s[Len(s)]

\* base64 of the digest with the padding stripped: unused bits written as 0.
EncodeSig(d) == Digits(d * (2 ^ PadBits), SigLen)

\* A decoder that keeps the unused bits, so a non-canonical last character
\* gives another number.
DecodeSigKeepPad(sig) == Number(sig)

\* base64 decoding of the signature: the unused low bits are discarded.
DecodeSig(sig) == Number(sig) \div (2 ^ PadBits)

\* serializer.dumps({'member_id': m}) with secret k.
dumps(k, m) == PayloadOf(m) \o <<Sep>> \o EncodeSig(Mac(k, PayloadOf(m)))

\* Index of the last separator of t, 0 when there is none (rsplit).
LastSep(t) ==
  LET idx == {i \in 1 .. Len(t) : t[i] = Sep}
  IN IF idx = {} THEN 0 ELSE CHOOSE i \in idx : \A j \in idx : j <= i

\* serializer.loads(t).get('member_id') with secret k; InvalidToken when
\* loads raises (no separator, signature mismatch, unparsable payload).
loads(k, t) ==
  LET i == LastSep(t) IN
  IF i = 0 THEN InvalidToken
  ELSE LET value == SubSeq(t, 1, i - 1)
           sig   == SubSeq(t, i + 1, Len(t))
       IN IF Len(sig) # SigLen THEN InvalidToken
          ELSE IF DecodeSig(sig) # Mac(k, value) THEN InvalidToken
          ELSE LoadPayload(value)

\* t with the character at position i replaced by c.
AlterAt(t, i, c) == [t EXCEPT ![i] = c]

(***************************************************************************)
(* State                                                                   *)
(***************************************************************************)

VARIABLES
  users,        \* table users: existing member_id -> row (the columns modelled)
  login_logs,   \* table login_logs: sequence of [member_id, success]
  session,      \* the client's cookie session (flask.session)
  resp,         \* the client's last event: the request handled and its
                \* response, or the expiry of its cookie
  tok,          \* codec: the token string in hand
  tokMember,    \* codec: the identifier tok was minted for
  tokSecret,    \* codec: the secret tok was minted with
  tokAltered,   \* codec: whether one character of tok was altered since
  decoded       \* codec: result of the last loads of tok, and its secret

vars == <<users, login_logs, session, resp, tok, tokMember, tokSecret, tokAltered, decoded>>

dbVars == <<users, login_logs>>

codecVars == <<tok, tokMember, tokSecret, tokAltered, decoded>>

\* A session with no keys (after session.clear(), or a new or expired cookie).
EmptySession ==
  [member_id |-> None, logged_in |-> FALSE, is_admin |-> FALSE, admin_username |-> None,
   csrf_token |-> None]

\* A response: the handler (op), the request's inputs, and the outcome (kind),
\* the member the page is about, whether verify_password was called, and the
\* login token embedded in the page.  For the roster forms: the selected
\* member_ids, the field and value, the csrf_token sent, the records whose
\* UPDATE raised, what bulk_update_users returned (success_count, and the
\* identifiers that have an entry in errors), the category of the message
\* flashed, and the login tokens of the QR codes listed on the page.
Response(op, kind, member, fields) ==
  [op |-> op, kind |-> kind, member |-> member,
   method |-> fields.method, pw |-> fields.pw, newpw |-> fields.newpw,
   confirm |-> fields.confirm,
   reqtoken |-> fields.reqtoken, verified |-> fields.verified,
   token |-> fields.token,
   member_ids |-> fields.member_ids, field |-> fields.field, value |-> fields.value,
   csrf_token |-> fields.csrf_token, raised |-> fields.raised,
   success_count |-> fields.success_count, errors |-> fields.errors,
   flash |-> fields.flash, qr_codes |-> fields.qr_codes]

NoFields ==
  [method |-> "GET", pw |-> None, newpw |-> None, confirm |-> None, reqtoken |-> <<>>,
   verified |-> FALSE, token |-> <<>>,
   member_ids |-> {}, field |-> None, value |-> None, csrf_token |-> None,
   raised |-> {}, success_count |-> 0, errors |-> {}, flash |-> None, qr_codes |-> {}]

(***************************************************************************)
(* Credential store (database.py)                                          *)
(***************************************************************************)

\* The date datetime.now() formats to, and the renewal date of a lifetime
\* membership.
Today == "2024-01-01"

LifetimeRenewal == "2099-12-31"

\* strptime(d, '%Y-%m-%d') followed by replace(year = year + 1) and strftime,
\* over the dates of the model; None when one of them raises (a blank or
\* malformed date, or 29 February).
YearLater(d) == IF d = "2024-01-01" THEN "2025-01-01" ELSE None

\* The row import_from_excel inserts: membership 'lifetime', joined today,
\* renewal in the far future, the password column's default.
ImportedRow ==
  [password |-> DefaultPassword, membership_type |-> "lifetime",
   membership_joining_date |-> Today, membership_renewal_date |-> LifetimeRenewal]

\* A lookup that finds no member.
UserNeverFound(m) == FALSE

\* get_user_by_id(member_id) returns a row.
UserExists(m) == m \in DOMAIN users

\* verify_password's result: a row exists and its password equals the one
\* given.
verify_password(m, password) == UserExists(m) /\ users[m].password = password

\* A verify_password that records nothing.
LogsNotAppended(m, password) == login_logs

\* login_logs after verify_password(m, password): one record appended by
\* log_login_attempt.  For an identifier with no row the INSERT violates the
\* foreign key (PRAGMA foreign_keys = ON), the exception is caught by
\* verify_password, and nothing is appended.
LogsAfterVerify(m, password) ==
  IF UserExists(m)
  THEN Append(login_logs, [member_id |-> m, success |-> verify_password(m, password)])
  ELSE login_logs

\* An UPDATE that writes nothing.
UsersNotUpdated(m, new_password) == users

\* users after change_user_password(m, new_password): UPDATE ... WHERE member_id = m.
UsersAfterPasswordChange(m, new_password) ==
  IF UserExists(m) THEN [users EXCEPT ![m].password = new_password] ELSE users

\* Room for the record a verify_password call appends.
LogRoom == Len(login_logs) < MaxLogs

(***************************************************************************)
(* Member login (app.py)                                                   *)
(***************************************************************************)

\* The requests a login form can make: GET, or POST with a password field.
LoginRequests ==
  {[method |-> "GET", pw |-> None]} \cup {[method |-> "POST", pw |-> p] : p \in LoginPasswords}

\* A session bound to some member whatever the identifier checked.
MemberSessionFirst(member_id) ==
  [EmptySession EXCEPT !.member_id = CHOOSE m \in MemberIds : TRUE, !.logged_in = TRUE]

\* session after a successful password check (app.py lines 198-200).
MemberSession(member_id) ==
  [EmptySession EXCEPT !.member_id = member_id, !.logged_in = TRUE]

\* A login that establishes the session whatever the check says.
SessionAfterCheckAlways(member_id, password_valid) == MemberSession(member_id)

\* session after the password check of login, by its result.
SessionAfterCheck(member_id, password_valid) ==
  IF password_valid THEN MemberSession(member_id) ELSE EmptySession

\* A login that clears the session before it looks the member up.
SessionClearedFirst == EmptySession

\* session when login finds no member: the 404 page is returned before
\* session.clear() is reached.
SessionOnNotFound == session

\* login(member_id): the handler of /login/<member_id>, also the tail of
\* secure_login.  op and reqtoken only label the response.
login(op, reqtoken, member_id, method, password) ==
  LET f == [NoFields EXCEPT !.method = method, !.pw = password, !.reqtoken = reqtoken] IN
  IF ~UserExists(member_id)
  THEN /\ resp' = Response(op, "not_found", member_id, f)
       /\ session' = SessionOnNotFound
       /\ UNCHANGED <<users, login_logs>>
  ELSE IF method = "GET" \/ password = ""
  THEN \* the form, or the form with "Password is required!"
       /\ session' = EmptySession
       /\ resp' = Response(op, "prompt", member_id, f)
       /\ UNCHANGED <<users, login_logs>>
  ELSE /\ LogRoom
       /\ login_logs' = LogsAfterVerify(member_id, password)
       /\ session' = SessionAfterCheck(member_id, verify_password(member_id, password))
       /\ resp' = Response(op,
                           IF verify_password(member_id, password)
                           THEN "redirect_profile" ELSE "prompt",
                           member_id, [f EXCEPT !.verified = TRUE])
       /\ UNCHANGED users

\* GET/POST /login/<member_id>
Login(member_id, req) ==
  /\ login("login", <<>>, member_id, req.method, req.pw)
  /\ UNCHANGED codecVars

\* A decoding that accepts every token as the first member's.
TokenMemberAny(token) == CHOOSE m \in MemberIds : TRUE

\* The member a token names, as secure_login decodes it.
TokenMember(token) == loads(SECRET_TOKEN_KEY, token)

\* GET/POST /secure-login/<token>
secure_login(token, req) ==
  IF TokenMember(token) = InvalidToken
  THEN /\ resp' = Response("secure_login", "rejected", None,
                           [NoFields EXCEPT !.method = req.method, !.pw = req.pw,
                                            !.reqtoken = token])
       /\ UNCHANGED <<users, login_logs, session>>
  ELSE login("secure_login", token, TokenMember(token), req.method, req.pw)

SecureLogin(token, req) ==
  /\ secure_login(token, req)
  /\ UNCHANGED codecVars

\* A guard that forgets to compare the member.
ProfileAllowedAnyMember(member_id) == session.logged_in

\* The guard of user_profile (app.py line 218): the session is logged in
\* and bound to the member whose profile is asked for.
ProfileAllowed(member_id) == session.logged_in /\ session.member_id = member_id

\* GET /profile/<member_id>
UserProfile(member_id) ==
  /\ IF ~ProfileAllowed(member_id)
     THEN resp' = Response("user_profile", "redirect_login", member_id, NoFields)
     ELSE IF ~UserExists(member_id)
     THEN resp' = Response("user_profile", "not_found", member_id, NoFields)
     ELSE resp' = Response("user_profile", "profile", member_id,
                           [NoFields EXCEPT !.token = dumps(SECRET_TOKEN_KEY, member_id)])
  /\ UNCHANGED <<users, login_logs, session>>
  /\ UNCHANGED codecVars

\* A logout that leaves the cookie as it was.
SessionKeptAfterLogout == session

\* session after logout: session.clear().
SessionAfterLogout == EmptySession

\* GET /logout : url_for('login', member_id=None) cannot be built, which
\* ends the request in the 500 handler after the session was cleared.
Logout ==
  /\ session' = SessionAfterLogout
  /\ resp' = Response("logout",
                      IF session.member_id = None THEN "error500" ELSE "redirect_login",
                      session.member_id, NoFields)
  /\ UNCHANGED dbVars
  /\ UNCHANGED codecVars

\* PERMANENT_SESSION_LIFETIME: an expired cookie is an empty session.
SessionExpire ==
  /\ session # EmptySession
  /\ session' = EmptySession
  /\ resp' = Response("session_expire", "expired", None, NoFields)
  /\ UNCHANGED <<users, login_logs>>
  /\ UNCHANGED codecVars

(***************************************************************************)
(* Own password change (app.py, database.py)                               *)
(***************************************************************************)

\* Passwords typed into the change-password form; "1234" is shorter than
\* MinOwnPasswordLen.
FormPasswords == {"", "1234", "123456", "abcdef"}

\* The forms submitted: a current password with every new password and a
\* confirmation equal to it, or with a confirmation that differs; and a form
\* with the current password left empty.
ChangeForms ==
  {[current |-> c, new |-> n, confirm |-> n] :
     c \in LoginPasswords \ {""}, n \in FormPasswords}
  \cup {[current |-> c, new |-> "abcdef", confirm |-> "123456"] : c \in LoginPasswords \ {""}}
  \cup {[current |-> "", new |-> "abcdef", confirm |-> "abcdef"]}

\* The input validation of change_own_password (app.py lines 567-577).
FormAccepted(form) ==
  /\ form.current # "" /\ form.new # "" /\ form.confirm # ""
  /\ form.new = form.confirm
  /\ Len(form.new) >= MinOwnPasswordLen

\* A store that changes the password without verifying the current one.
DbChangeOwnNoVerify(member_id, form) == UserExists(member_id)

\* db.change_own_password(member_id, current, new) succeeds: the current
\* password verifies (and the UPDATE then finds the row).
db_change_own_password(member_id, form) == verify_password(member_id, form.current)

\* A handler that keeps the session after the change.
SessionKeptAfterChange == session

\* session after a successful change: session.clear() (app.py line 585).
SessionAfterOwnChange == EmptySession

\* POST /change-own-password
ChangeOwnPassword(form) ==
  LET member_id == session.member_id
      f == [NoFields EXCEPT !.method = "POST", !.pw = form.current, !.newpw = form.new,
                            !.confirm = form.confirm]
  IN
  /\ IF ~session.logged_in
     THEN /\ resp' = Response("change_own_password", "redirect_home", None, f)
          /\ UNCHANGED <<users, login_logs, session>>
     ELSE IF ~FormAccepted(form)
     THEN /\ resp' = Response("change_own_password", "redirect_profile", member_id, f)
          /\ UNCHANGED <<users, login_logs, session>>
     ELSE /\ UserExists(member_id) => LogRoom
          /\ login_logs' = LogsAfterVerify(member_id, form.current)
          /\ IF db_change_own_password(member_id, form)
             THEN /\ users' = UsersAfterPasswordChange(member_id, form.new)
                  /\ session' = SessionAfterOwnChange
                  /\ resp' = Response("change_own_password", "password_changed", member_id,
                                      [f EXCEPT !.verified = TRUE])
             ELSE /\ resp' = Response("change_own_password", "redirect_profile", member_id,
                                      [f EXCEPT !.verified = TRUE])
                  /\ UNCHANGED <<users, session>>
  /\ UNCHANGED codecVars

(***************************************************************************)
(* Admin (app.py, database.py)                                             *)
(***************************************************************************)

\* A decorator that lets every client through.
AdminNotRequired == TRUE

\* A guard that also asks for a member session.
AdminAndMemberRequired == session.is_admin /\ session.logged_in

\* admin_required: the view runs only with the admin flag in the session.
AdminRequired == session.is_admin

\* The redirect of admin_required, for a request about member_id.
AdminRedirect(op, member_id) ==
  /\ resp' = Response(op, "redirect_admin_login", member_id, NoFields)
  /\ UNCHANGED <<users, login_logs, session>>

\* verify_admin(username, password)
verify_admin(username, password) == username = AdminUsername /\ password = AdminPassword

\* The requests an admin login form can make: GET, or POST with the right
\* or a wrong password.
AdminLoginRequests ==
  {[method |-> "GET", username |-> None, password |-> None],
   [method |-> "POST", username |-> AdminUsername, password |-> AdminPassword],
   [method |-> "POST", username |-> AdminUsername, password |-> "123456"]}

\* GET/POST /admin/login
AdminLogin(req) ==
  /\ IF session.is_admin
     THEN /\ resp' = Response("admin_login", "redirect_dashboard", None, NoFields)
          /\ UNCHANGED session
     ELSE IF req.method = "POST" /\ verify_admin(req.username, req.password)
     THEN /\ session' = [session EXCEPT !.is_admin = TRUE, !.admin_username = req.username]
          /\ resp' = Response("admin_login", "redirect_dashboard", None,
                              [NoFields EXCEPT !.method = "POST"])
     ELSE /\ resp' = Response("admin_login", "admin_prompt", None,
                              [NoFields EXCEPT !.method = req.method])
          /\ UNCHANGED session
  /\ UNCHANGED dbVars
  /\ UNCHANGED codecVars

\* GET /admin/logout
AdminLogout ==
  /\ session' = [session EXCEPT !.is_admin = FALSE, !.admin_username = None]
  /\ resp' = Response("admin_logout", "redirect_admin_login", None, NoFields)
  /\ UNCHANGED dbVars
  /\ UNCHANGED codecVars

\* Passwords typed into the add-user form (an empty field is stored as '').
AddPasswords == {"", DefaultPassword}

\* The renewal date add_user and update_user compute from the form: far
\* future for 'lifetime', else a year after the joining date, else fallback.
RenewalFromForm(membership_type, joining_date, fallback) ==
  IF membership_type = "lifetime" THEN LifetimeRenewal
  ELSE IF joining_date # "" /\ YearLater(joining_date) # None THEN YearLater(joining_date)
  ELSE fallback

\* The row add_user inserts for the form user_data.
AddedRow(user_data) ==
  [password |-> user_data.password,
   membership_type |-> user_data.membership_type,
   membership_joining_date |-> user_data.membership_joining_date,
   membership_renewal_date |->
     RenewalFromForm(user_data.membership_type, user_data.membership_joining_date, "")]

\* POST /admin/add-user with the form user_data : add_user inserts the row
\* unless the id exists.
AdminAddUserForm(user_data) ==
  /\ IF ~AdminRequired THEN AdminRedirect("admin_add_user", user_data.member_id)
     ELSE IF UserExists(user_data.member_id)
     THEN /\ resp' = Response("admin_add_user", "add_form", user_data.member_id,
                              [NoFields EXCEPT !.method = "POST"])
          /\ UNCHANGED <<users, login_logs, session>>
     ELSE /\ users' = (user_data.member_id :> AddedRow(user_data)) @@ users
          /\ resp' = Response("admin_add_user", "redirect_users", user_data.member_id,
                              [NoFields EXCEPT !.method = "POST"])
          /\ UNCHANGED <<login_logs, session>>
  /\ UNCHANGED codecVars

\* POST /admin/add-user for a lifetime member joining today.
AdminAddUser(member_id, password) ==
  AdminAddUserForm([member_id |-> member_id, password |-> password,
                    membership_type |-> "lifetime", membership_joining_date |-> Today])

\* A delete that empties login_logs.
LogsAllDeleted(member_id) == <<>>

\* login_logs after delete_user: DELETE FROM login_logs WHERE member_id = ?.
LogsAfterDelete(member_id) ==
  SelectSeq(login_logs, LAMBDA r : r.member_id # member_id)

\* GET /admin/delete-user/<member_id> : delete_user removes the member's
\* login_logs rows, then the member.
AdminDeleteUser(member_id) ==
  /\ IF ~AdminRequired THEN AdminRedirect("admin_delete_user", member_id)
     ELSE /\ login_logs' = LogsAfterDelete(member_id)
          /\ users' = [m \in DOMAIN users \ {member_id} |-> users[m]]
          /\ resp' = Response("admin_delete_user", "redirect_users", member_id,
                              [NoFields EXCEPT !.flash = IF UserExists(member_id)
                                                         THEN "success" ELSE "error"])
          /\ UNCHANGED session
  /\ UNCHANGED codecVars

\* GET /admin/view-profile/<member_id>
AdminViewProfile(member_id) ==
  /\ IF ~AdminRequired THEN AdminRedirect("admin_view_profile", member_id)
     ELSE /\ IF ~UserExists(member_id)
             THEN resp' = Response("admin_view_profile", "redirect_users", member_id, NoFields)
             ELSE resp' = Response("admin_view_profile", "profile", member_id,
                                   [NoFields EXCEPT !.token = dumps(SECRET_TOKEN_KEY, member_id)])
          /\ UNCHANGED <<users, login_logs, session>>
  /\ UNCHANGED codecVars

(***************************************************************************)
(* Specification of the application                                        *)
(***************************************************************************)

\* The token the application mints for m (generate_qr_code, app.py line 72).
TokenFor(m) == dumps(SECRET_TOKEN_KEY, m)

\* The last character of t moved within its unused low bits.
PadAltered(t) == AlterAt(t, Len(t), t[Len(t)] + 1)

\* Tokens a client may present: those minted for the members, one minted
\* under another secret, and one-character alterations of a minted token
\* (its payload character; the unused bits of its last character).
LoginTokens ==
  {TokenFor(m) : m \in MemberIds}
  \cup {dumps(OtherSecret, "M1")}
  \cup {AlterAt(TokenFor("M1"), 1, PayloadOf("M2")[1]),
        PadAltered(TokenFor("M1"))}

NoDecode == [secret |-> None, result |-> None]

CodecIdle ==
  /\ tok = <<>>
  /\ tokMember = None
  /\ tokSecret = None
  /\ tokAltered = FALSE
  /\ decoded = NoDecode

NoRequest == Response("none", "none", None, NoFields)

\* The application starts on a users table that holds members (imported
\* rows carry the column default password), an empty login_logs table and a
\* client without a cookie.
Init ==
  /\ \E S \in SUBSET MemberIds :
       /\ S # {}
       /\ users = [m \in S |-> ImportedRow]
  /\ login_logs = <<>>
  /\ session = EmptySession
  /\ resp = NoRequest
  /\ CodecIdle

Next ==
  \/ \E m \in MemberIds, req \in LoginRequests : Login(m, req)
  \/ \E t \in LoginTokens, req \in LoginRequests : SecureLogin(t, req)
  \/ \E m \in MemberIds : UserProfile(m)
  \/ Logout
  \/ SessionExpire
  \/ \E form \in ChangeForms : ChangeOwnPassword(form)
  \/ \E req \in AdminLoginRequests : AdminLogin(req)
  \/ AdminLogout
  \/ \E m \in MemberIds, p \in AddPasswords : AdminAddUser(m, p)
  \/ \E m \in MemberIds : AdminDeleteUser(m)
  \/ \E m \in MemberIds : AdminViewProfile(m)

Spec == Init /\ [][Next]_vars

(***************************************************************************)
(* Specification of the token codec alone                                  *)
(***************************************************************************)

\* A token is minted for m under secret k.
Mint(k, m) ==
  /\ tok' = dumps(k, m)
  /\ tokMember' = m
  /\ tokSecret' = k
  /\ tokAltered' = FALSE
  /\ decoded' = NoDecode
  /\ UNCHANGED <<users, login_logs, session, resp>>

\* One character of the minted token is replaced by another symbol.
Alter(i, c) ==
  /\ tok # <<>>
  /\ ~tokAltered
  /\ i \in 1 .. Len(tok)
  /\ c # tok[i]
  /\ tok' = AlterAt(tok, i, c)
  /\ tokAltered' = TRUE
  /\ decoded' = NoDecode
  /\ UNCHANGED <<tokMember, tokSecret, users, login_logs, session, resp>>

\* The token in hand is decoded under secret k.
Decode(k) ==
  /\ tok # <<>>
  /\ decoded' = [secret |-> k, result |-> loads(k, tok)]
  /\ UNCHANGED <<tok, tokMember, tokSecret, tokAltered, users, login_logs, session, resp>>

CodecInit ==
  /\ users = [m \in MemberIds |-> ImportedRow]
  /\ login_logs = <<>>
  /\ session = EmptySession
  /\ resp = NoRequest
  /\ CodecIdle

CodecNext ==
  \/ \E k \in Secrets, m \in MemberIds : Mint(k, m)
  \/ \E i \in 1 .. (SigLen + 2), c \in Symbols : Alter(i, c)
  \/ \E k \in Secrets : Decode(k)

SpecCodec == CodecInit /\ [][CodecNext]_vars

(***************************************************************************)
(* Properties                                                              *)
(***************************************************************************)

\* The step just taken handled a login request (direct or by token).
IsLoginStep == resp'.op \in {"login", "secure_login"}

\* The session is a member session bound to m.
BoundTo(s, m) == s.logged_in /\ s.member_id = m

\* C1: a secure-login request carrying the token minted for an existing
\* member m, from a client without a member session, ends at the password
\* prompt for m (a GET always does; a POST either re-prompts for m or
\* establishes a session), and a session it establishes is bound to m and to
\* no other member.
C1_SecureLoginScopedToMember ==
  [][\A m \in MemberIds :
       (/\ resp'.op = "secure_login"
        /\ resp'.reqtoken = TokenFor(m)
        /\ UserExists(m)
        /\ ~session.logged_in)
       => /\ resp'.member = m
          /\ resp'.kind \in {"prompt", "redirect_profile"}
          /\ resp'.method = "GET" => resp'.kind = "prompt"
          /\ resp'.kind = "redirect_profile" => BoundTo(session', m)
          /\ session'.member_id \in {None, m}]_vars

\* C1 witness: the token minted for M2 led, through its prompt, to a session
\* bound to M2.
C1_Witness ==
  /\ resp.op = "secure_login"
  /\ resp.reqtoken = TokenFor("M2")
  /\ resp.kind = "redirect_profile"
  /\ BoundTo(session, "M2")

\* C2: a secure-login request (GET or POST) whose token does not decode is
\* rejected: no prompt, no credential check, no login attempt recorded, and
\* the store and the client's session are left as they were.
C2_InvalidTokenRejected ==
  [][(/\ resp'.op = "secure_login"
      /\ loads(SECRET_TOKEN_KEY, resp'.reqtoken) = InvalidToken)
     => /\ resp'.kind = "rejected"
        /\ ~resp'.verified
        /\ login_logs' = login_logs
        /\ users' = users
        /\ session' = session]_vars

\* C2 witness: a POST with a token minted under another secret was rejected
\* while the client held a member session, which it still holds.
C2_Witness ==
  /\ resp.op = "secure_login"
  /\ resp.kind = "rejected"
  /\ resp.method = "POST"
  /\ resp.reqtoken = dumps(OtherSecret, "M1")
  /\ session.logged_in

\* The token in hand was decoded under the secret it was minted with.
DecodedSameSecret == decoded.secret # None /\ decoded.secret = tokSecret

\* The token in hand differs from the minted one only in the unused low bits
\* of its last character.
OnlyPadAltered ==
  LET orig == dumps(tokSecret, tokMember) IN
  /\ tokAltered
  /\ \A i \in 1 .. Len(tok) - 1 : tok[i] = orig[i]
  /\ tok[Len(tok)] # Sep
  /\ tok[Len(tok)] \div (2 ^ PadBits) = orig[Len(tok)] \div (2 ^ PadBits)

SubmittedAt(m, pw) ==
  /\ IsLoginStep
  /\ resp'.method = "POST"
  /\ resp'.member = m
  /\ resp'.pw = pw
  /\ UserExists(m)

\* The password stored for m, None when m has no row.
StoredPassword(m) == IF UserExists(m) THEN users[m].password ELSE None

\* A session becomes bound to m only by a login step for m whose password
\* the store verified against m's stored password.
BoundOnlyByVerifiedLogin ==
  \A m \in MemberIds :
    (BoundTo(session', m) /\ ~BoundTo(session, m))
    => /\ SubmittedAt(m, StoredPassword(m))
       /\ resp'.verified

\* C4 as stated: a session is bound to m only through a verified password
\* submission at m's prompt, and submitting m's stored password at the
\* prompt for m establishes a session bound to m.
C4_Original ==
  [][/\ BoundOnlyByVerifiedLogin
     /\ \A m \in MemberIds :
          SubmittedAt(m, StoredPassword(m)) => BoundTo(session', m)]_vars

\* What holds of C4: a session is bound to m only through a verified
\* password submission at m's prompt, and submitting m's stored password at
\* the prompt for m establishes a session bound to m unless that password
\* is empty (an empty submission is answered "Password is required!"
\* without a check, also for a member whose stored password is empty).
C4_SessionOnlyByPassword ==
  [][/\ BoundOnlyByVerifiedLogin
     /\ \A m \in MemberIds :
          (SubmittedAt(m, StoredPassword(m)) /\ StoredPassword(m) # "")
          => BoundTo(session', m)
     /\ \A m \in MemberIds :
          SubmittedAt(m, "") => ~session'.logged_in /\ ~resp'.verified]_vars

\* C4 witness: a login with a password the member chose established the
\* session bound to that member.
C4_Witness ==
  /\ resp.op = "login"
  /\ resp.kind = "redirect_profile"
  /\ resp.pw = "abcdef"
  /\ resp.verified
  /\ BoundTo(session, resp.member)

\* C5: submitting, at the prompt of member m, a password that is not m's
\* stored password leaves the client without a member session and at the
\* prompt for the same m, however many submissions failed before.
C5_FailedLoginNoSession ==
  [][\A m \in MemberIds, pw \in LoginPasswords :
       (SubmittedAt(m, pw) /\ pw # StoredPassword(m))
       => /\ ~session'.logged_in
          /\ session'.member_id = None
          /\ resp'.kind = "prompt"
          /\ resp'.member = m]_vars

\* C5 witness: MaxLogs failed submissions in a row for one member, and the
\* client is at the prompt without a session.
C5_Witness ==
  /\ resp.op = "login"
  /\ resp.kind = "prompt"
  /\ resp.verified
  /\ Len(login_logs) = MaxLogs
  /\ \A i \in 1 .. Len(login_logs) :
       login_logs[i] = [member_id |-> resp.member, success |-> FALSE]
  /\ ~session.logged_in

\* C6: the profile of member Y is served only to a session logged in and
\* bound to Y, any other request for it is redirected to the login entry
\* for Y without profile data; and a change-own-password request changes no
\* password but that of the member the session is bound to.
C6_MemberScope ==
  [][/\ resp'.op = "user_profile" =>
          IF BoundTo(session, resp'.member)
          THEN resp'.kind \in {"profile", "not_found"}
          ELSE resp'.kind = "redirect_login" /\ resp'.token = <<>>
     /\ resp'.op = "change_own_password" =>
          /\ DOMAIN users' = DOMAIN users
          /\ \A m \in DOMAIN users :
               users'[m] # users[m] => BoundTo(session, m)]_vars

\* C6 witness: a session bound to one member asked for another member's
\* profile and was redirected.
C6_Witness ==
  /\ resp.op = "user_profile"
  /\ resp.kind = "redirect_login"
  /\ session.logged_in
  /\ session.member_id # resp.member
  /\ resp.member \in DOMAIN users

\* C7: with an admin session, the admin view serves the profile of every
\* existing member without a password verification and without recording
\* a login attempt, whatever the member's password and member session.
C7_AdminViewNoPassword ==
  [][(/\ resp'.op = "admin_view_profile"
      /\ session.is_admin
      /\ UserExists(resp'.member))
     => /\ resp'.kind = "profile"
        /\ ~resp'.verified
        /\ login_logs' = login_logs
        /\ session' = session]_vars

\* C7 witness: the admin view served a profile to a client that holds no
\* member session.
C7_Witness ==
  /\ resp.op = "admin_view_profile"
  /\ resp.kind = "profile"
  /\ session.is_admin
  /\ ~session.logged_in

\* The last event was an accepted change-own-password request.
PasswordJustChanged == resp.op = "change_own_password" /\ resp.kind = "password_changed"

\* The step just taken is a login submission for the member whose password
\* was just changed.
LoginRightAfterChange ==
  /\ PasswordJustChanged
  /\ IsLoginStep
  /\ resp'.method = "POST"
  /\ resp'.member = resp.member

\* C8 as stated: after a member changed their own password (correct current
\* password, any accepted new password), the next login attempt with the old
\* password fails and one with the new password succeeds.
C8_Original ==
  [][LoginRightAfterChange =>
       /\ resp'.pw = resp.pw => resp'.kind = "prompt" /\ ~session'.logged_in
       /\ resp'.pw = resp.newpw =>
            resp'.kind = "redirect_profile" /\ BoundTo(session', resp.member)]_vars

\* C8 amended: the same, for a new password that differs from the old one;
\* when the member re-enters the old password as the new one the change is
\* accepted too, and that password keeps logging in.
C8_OldFailsNewSucceeds ==
  [][LoginRightAfterChange =>
       /\ (resp'.pw = resp.pw /\ resp.newpw # resp.pw) =>
            resp'.kind = "prompt" /\ ~session'.logged_in
       /\ resp'.pw = resp.newpw =>
            resp'.kind = "redirect_profile" /\ BoundTo(session', resp.member)]_vars

\* C8 witness: right after a change from one password to another, a login
\* with the old password was answered by the prompt.
C8_Witness ==
  /\ resp.op = "login" /\ resp.kind = "prompt" /\ resp.verified
  /\ resp.member \in DOMAIN users
  /\ resp.pw = "123456"
  /\ users[resp.member].password = "abcdef"
  /\ Len(login_logs) >= 2
  /\ login_logs[Len(login_logs)] = [member_id |-> resp.member, success |-> FALSE]
  /\ login_logs[Len(login_logs) - 1] = [member_id |-> resp.member, success |-> TRUE]

\* C9: an accepted change-own-password request leaves the client without a
\* member session; a request for that member's profile right after it is
\* redirected to the login entry; and a member session comes back only by a
\* login step whose password the store verified.
C9_ChangeInvalidatesSession ==
  [][/\ (resp'.op = "change_own_password" /\ resp'.kind = "password_changed")
          => session' = EmptySession
     /\ (PasswordJustChanged /\ resp'.op = "user_profile" /\ resp'.member = resp.member)
          => resp'.kind = "redirect_login"
     /\ (~session.logged_in /\ session'.logged_in)
          => IsLoginStep /\ resp'.kind = "redirect_profile" /\ resp'.verified]_vars

\* C9 witness: the password was changed, the new one is stored, and the
\* client that changed it holds no member session.
C9_Witness ==
  /\ PasswordJustChanged
  /\ resp.member \in DOMAIN users
  /\ users[resp.member].password = resp.newpw
  /\ resp.newpw # resp.pw
  /\ ~session.logged_in

\* The change-own-password request just handled was not acceptable: no
\* member session, a missing field, a confirmation that differs, a new
\* password that is too short, or a current password that does not verify.
ChangeNotAccepted ==
  /\ resp'.op = "change_own_password"
  /\ \/ ~session.logged_in
     \/ resp'.pw = "" \/ resp'.newpw = "" \/ resp'.confirm = ""
     \/ resp'.newpw # resp'.confirm
     \/ Len(resp'.newpw) < MinOwnPasswordLen
     \/ resp'.pw # StoredPassword(session.member_id)

\* C10: a change-own-password request that is not accepted leaves every
\* stored password and the client's session as they were.
C10_RejectedChangeNoEffect ==
  [][ChangeNotAccepted =>
       /\ users' = users
       /\ session' = session
       /\ resp'.kind # "password_changed"]_vars

\* C10 witness: a well-formed change request with a wrong current password
\* was refused, and the member session is still there.
C10_Witness ==
  /\ resp.op = "change_own_password"
  /\ resp.kind = "redirect_profile"
  /\ resp.verified
  /\ resp.member \in DOMAIN users
  /\ users[resp.member].password # resp.pw
  /\ BoundTo(session, resp.member)

(***************************************************************************)
(* Session scopes, logout, and the login-attempt log                       *)
(***************************************************************************)

\* The member scope and the admin scope of a session.
MemberPart(s) == <<s.member_id, s.logged_in>>

AdminPart(s) == <<s.is_admin, s.admin_username>>

\* C11: the member and admin session scopes are independent: a login request
\* for an existing member (direct or by a token that decodes; GET, or POST
\* with any password, accepted or not) leaves the admin scope of the session
\* as it was, and an admin login or admin logout request leaves the member
\* scope as it was.
C11_Original ==
  [][/\ (IsLoginStep /\ UserExists(resp'.member))
          => AdminPart(session') = AdminPart(session)
     /\ resp'.op \in {"admin_login", "admin_logout"}
          => MemberPart(session') = MemberPart(session)]_vars

\* The half of C11 about the admin requests alone.
C11_AdminStepsKeepMember ==
  [][resp'.op \in {"admin_login", "admin_logout"}
       => MemberPart(session') = MemberPart(session)]_vars

\* C12: logout is unconditional: whatever the session held, a member logout
\* request leaves it with no member scope, and an admin logout request leaves
\* it with no admin scope.
C12_LogoutUnconditional ==
  [][/\ resp'.op = "logout" => MemberPart(session') = MemberPart(EmptySession)
     /\ resp'.op = "admin_logout" => AdminPart(session') = AdminPart(EmptySession)]_vars

\* A member logout was served to a client whose session was bound to a
\* member who had logged in: nothing is left of the session.
C12_Witness ==
  /\ resp.op = "logout"
  /\ resp.kind = "redirect_login"
  /\ resp.member \in MemberIds
  /\ session = EmptySession
  /\ login_logs # <<>>

\* a is an initial part of b.
IsPrefix(a, b) == Len(a) <= Len(b) /\ SubSeq(b, 1, Len(a)) = a

\* The records of login_logs that are not about m, in order.
RecordsOfOthers(logs, m) == SelectSeq(logs, LAMBDA r : r.member_id # m)

\* The step just taken deleted a member (the admin's delete-user request).
IsDeleteStep == resp'.op = "admin_delete_user" /\ resp'.kind = "redirect_users"

\* C13: login-attempt records are append-only: a step that is not a member
\* deletion keeps every record and only appends; deleting member m removes m
\* and exactly the records of m; and every record refers to an existing
\* member.
C13_LogsAppendOnly ==
  [][/\ IsDeleteStep
          => /\ login_logs' = RecordsOfOthers(login_logs, resp'.member)
             /\ DOMAIN users' = DOMAIN users \ {resp'.member}
     /\ ~IsDeleteStep => IsPrefix(login_logs, login_logs')
     /\ \A i \in DOMAIN login_logs : login_logs[i].member_id \in DOMAIN users
     /\ \A i \in DOMAIN login_logs' : login_logs'[i].member_id \in DOMAIN users']_vars

\* An existing member was deleted while the records of another member stayed.
C13_Witness ==
  /\ resp.op = "admin_delete_user"
  /\ resp.kind = "redirect_users"
  /\ resp.flash = "success"
  /\ resp.member \notin DOMAIN users
  /\ login_logs # <<>>
  /\ Len(login_logs) < MaxLogs
  /\ \E m \in DOMAIN users : \A i \in DOMAIN login_logs : login_logs[i].member_id = m

\* The step just taken submitted a password at the login prompt of an
\* existing member.
IsPasswordSubmission ==
  IsLoginStep /\ resp'.method = "POST" /\ UserExists(resp'.member)

\* The step just taken called verify_password and appended exactly one
\* record for the member, successful exactly when a session was established.
VerifiedAndLogged ==
  /\ resp'.verified
  /\ login_logs' = Append(login_logs,
                          [member_id |-> resp'.member,
                           success |-> BoundTo(session', resp'.member)])

\* C14 as stated: every password submission at the login prompt of an
\* existing member calls verify and appends exactly one record for the
\* member, whose success flag tells whether a session was established.
C14_Original ==
  [][IsPasswordSubmission => VerifiedAndLogged]_vars

\* C14: every submission of a non-empty password at the login prompt of an
\* existing member m (POST to direct login or secure login) calls verify and
\* appends exactly one record for m, whose success flag is true exactly when
\* the submission established a session; an empty password is answered with
\* the prompt again, without a verify call and without a record.
C14_SubmissionLogged ==
  [][IsPasswordSubmission
       => IF resp'.pw # ""
          THEN VerifiedAndLogged
          ELSE /\ ~resp'.verified
               /\ login_logs' = login_logs
               /\ resp'.kind = "prompt"]_vars

\* A wrong password was submitted by token and recorded as a failure.
C14_Witness ==
  /\ resp.op = "secure_login"
  /\ resp.method = "POST"
  /\ resp.verified
  /\ resp.kind = "prompt"
  /\ login_logs # <<>>
  /\ login_logs[Len(login_logs)] = [member_id |-> resp.member, success |-> FALSE]

\* C17: a direct-login request, or a secure-login request whose token
\* decodes, for an identifier that has no member ends in MemberNotFound: no
\* prompt, no verify call, no record, and the session and the members are
\* left as they were.
C17_NotFoundNoEffect ==
  [][(/\ IsLoginStep
      /\ resp'.member \in MemberIds
      /\ ~UserExists(resp'.member))
       => /\ resp'.kind = "not_found"
          /\ ~resp'.verified
          /\ login_logs' = login_logs
          /\ session' = session
          /\ users' = users]_vars

\* A token of a deleted member was used by a client holding a session, with
\* a password, and the session is still there.
C17_Witness ==
  /\ resp.op = "secure_login"
  /\ resp.method = "POST"
  /\ resp.pw = DefaultPassword
  /\ resp.kind = "not_found"
  /\ resp.member \notin DOMAIN users
  /\ session.is_admin
  /\ session.logged_in

(***************************************************************************)
(* Roster administration (app.py, database.py)                             *)
(***************************************************************************)

\* GET /admin/dashboard and GET /admin/users : read the tables and render.
AdminDashboard ==
  /\ IF ~AdminRequired THEN AdminRedirect("admin_dashboard", None)
     ELSE /\ resp' = Response("admin_dashboard", "dashboard", None, NoFields)
          /\ UNCHANGED <<users, login_logs, session>>
  /\ UNCHANGED codecVars

AdminUsers ==
  /\ IF ~AdminRequired THEN AdminRedirect("admin_users", None)
     ELSE /\ resp' = Response("admin_users", "users_page", None, NoFields)
          /\ UNCHANGED <<users, login_logs, session>>
  /\ UNCHANGED codecVars

\* The row update_user writes over row for the edit form user_data: every
\* column but member_id and password; the form carries no renewal date, so
\* the fallback of the computed one is ''.
UpdatedRow(row, user_data) ==
  [row EXCEPT !.membership_type = user_data.membership_type,
              !.membership_joining_date = user_data.membership_joining_date,
              !.membership_renewal_date =
                 RenewalFromForm(user_data.membership_type,
                                 user_data.membership_joining_date, "")]

\* The requests the edit form can make.
EditRequests ==
  {[method |-> "GET", membership_type |-> None, membership_joining_date |-> None],
   [method |-> "POST", membership_type |-> "lifetime", membership_joining_date |-> ""],
   [method |-> "POST", membership_type |-> "annually", membership_joining_date |-> Today],
   [method |-> "POST", membership_type |-> "annually", membership_joining_date |-> ""]}

\* GET/POST /admin/edit-user/<member_id>
AdminEditUser(member_id, req) ==
  /\ IF ~AdminRequired THEN AdminRedirect("admin_edit_user", member_id)
     ELSE IF ~UserExists(member_id)
     THEN /\ resp' = Response("admin_edit_user", "redirect_users", member_id,
                              [NoFields EXCEPT !.method = req.method, !.flash = "error"])
          /\ UNCHANGED <<users, login_logs, session>>
     ELSE IF req.method = "GET"
     THEN /\ resp' = Response("admin_edit_user", "edit_form", member_id, NoFields)
          /\ UNCHANGED <<users, login_logs, session>>
     ELSE /\ users' = [users EXCEPT ![member_id] = UpdatedRow(users[member_id], req)]
          /\ resp' = Response("admin_edit_user", "redirect_users", member_id,
                              [NoFields EXCEPT !.method = "POST", !.flash = "success",
                                               !.field = req.membership_type,
                                               !.value = req.membership_joining_date])
          /\ UNCHANGED <<login_logs, session>>
  /\ UNCHANGED codecVars

\* A whitelist that lets every column through.
BulkUpdatableAny ==
  {"name", "date_of_birth", "address", "blood_group", "phone", "image_path",
   "membership_type", "membership_joining_date", "membership_renewal_date",
   "member_id", "password"}

\* The columns bulk_update_users accepts in update_data (the second
\* definition of the method, the one the class ends up with).
BulkUpdatable ==
  {"name", "date_of_birth", "address", "blood_group", "phone", "image_path",
   "membership_type", "membership_joining_date", "membership_renewal_date"}

\* The row bulk_update_users writes over row for {field: value}: the field if
\* it is accepted (only the modelled columns show), and for membership_type
\* the renewal date as well: far future for 'lifetime', else a year after the
\* stored joining date when that can be computed.
BulkUpdatedRow(row, field, value) ==
  LET set == IF field \in BulkUpdatable /\ field \in DOMAIN row
             THEN [row EXCEPT ![field] = value] ELSE row
  IN IF field # "membership_type" THEN set
     ELSE IF value = "lifetime"
     THEN [set EXCEPT !.membership_renewal_date = LifetimeRenewal]
     ELSE IF row.membership_joining_date # "" /\ YearLater(row.membership_joining_date) # None
     THEN [set EXCEPT !.membership_renewal_date = YearLater(row.membership_joining_date)]
     ELSE set

\* A bulk update that gives up on every record once one of them raises.
BulkAppliedAllOrNothing(member_ids, raised) ==
  IF raised = {} THEN member_ids ELSE {}

\* The records whose UPDATE bulk_update_users executes and commits: each
\* record has its own try block, and the one commit follows the loop.
BulkApplied(member_ids, raised) == member_ids \ raised

\* The count of the first definition of bulk_update_users, which the second
\* one replaces: one for every UPDATE executed.
BulkSuccessCountFirst(member_ids, raised) == Cardinality(BulkApplied(member_ids, raised))

\* success_count: one for every executed UPDATE with cursor.rowcount > 0.
BulkSuccessCount(member_ids, raised) ==
  Cardinality({m \in BulkApplied(member_ids, raised) : UserExists(m)})

\* The identifiers with an entry in errors: those whose record raised.
BulkErrors(member_ids, raised) == raised

\* users after bulk_update_users.
UsersAfterBulkUpdate(member_ids, field, value, raised) ==
  [m \in DOMAIN users |->
     IF m \in BulkApplied(member_ids, raised)
     THEN BulkUpdatedRow(users[m], field, value) ELSE users[m]]

\* The field and value pairs of the bulk-edit form.
BulkChanges ==
  {<<"membership_type", "lifetime">>, <<"membership_type", "annually">>,
   <<"membership_renewal_date", "2030-06-30">>, <<"password", "abcdef">>,
   <<"member_id", "M1">>, <<"membership_type", "">>}

\* The requests the bulk-edit form can make, and for a POST the records
\* whose UPDATE raises (an error of the database when the statement runs).
BulkRequests ==
  {[method |-> "GET", member_ids |-> {}, field |-> None, value |-> None, raised |-> {}]}
  \cup {[method |-> "POST", member_ids |-> S, field |-> c[1], value |-> c[2], raised |-> R] :
          S \in SUBSET MemberIds, c \in BulkChanges, R \in SUBSET MemberIds}

\* GET/POST /admin/bulk-edit
AdminBulkEdit(req) ==
  /\ req.raised \subseteq req.member_ids
  /\ LET f == [NoFields EXCEPT !.method = req.method, !.member_ids = req.member_ids,
                               !.field = req.field, !.value = req.value]
     IN IF ~AdminRequired THEN AdminRedirect("admin_bulk_edit", None)
        ELSE IF req.method = "GET"
        THEN /\ resp' = Response("admin_bulk_edit", "bulk_form", None, NoFields)
             /\ UNCHANGED <<users, login_logs, session>>
        ELSE IF req.member_ids = {} \/ req.field = "" \/ req.value = ""
        THEN /\ req.raised = {}
             /\ resp' = Response("admin_bulk_edit", "redirect_bulk_edit", None,
                                 [f EXCEPT !.flash = "error"])
             /\ UNCHANGED <<users, login_logs, session>>
        ELSE /\ users' = UsersAfterBulkUpdate(req.member_ids, req.field, req.value, req.raised)
             /\ resp' = Response("admin_bulk_edit", "bulk_updated", None,
                                 [f EXCEPT !.raised = req.raised,
                                           !.success_count =
                                              BulkSuccessCount(req.member_ids, req.raised),
                                           !.errors = BulkErrors(req.member_ids, req.raised)])
             /\ UNCHANGED <<login_logs, session>>
  /\ UNCHANGED codecVars

\* The uploads of the import form: no .xlsx file, or a workbook with rows
\* for the identifiers ids.
ImportFiles ==
  {[xlsx |-> FALSE, ids |-> {}]} \cup {[xlsx |-> TRUE, ids |-> S] : S \in SUBSET MemberIds}

\* users after import_from_excel: INSERT OR IGNORE of one row per
\* identifier, so the row of an existing member stays.
UsersAfterImport(ids) ==
  [m \in DOMAIN users \cup ids |-> IF UserExists(m) THEN users[m] ELSE ImportedRow]

\* POST /admin/import-excel
AdminImportExcel(file) ==
  /\ IF ~AdminRequired THEN AdminRedirect("admin_import_excel", None)
     ELSE IF ~file.xlsx
     THEN /\ resp' = Response("admin_import_excel", "redirect_users", None,
                              [NoFields EXCEPT !.method = "POST", !.flash = "error"])
          /\ UNCHANGED <<users, login_logs, session>>
     ELSE /\ users' = UsersAfterImport(file.ids)
          /\ resp' = Response("admin_import_excel", "redirect_users", None,
                              [NoFields EXCEPT !.method = "POST", !.flash = "success",
                                               !.member_ids = file.ids])
          /\ UNCHANGED <<login_logs, session>>
  /\ UNCHANGED codecVars

\* The values secrets.token_hex can return.
CsrfTokens == {"t1", "t2"}

\* session after generate_csrf_token() drew t: a session that has a token
\* keeps it.
generate_csrf_token(t) ==
  IF session.csrf_token = None THEN [session EXCEPT !.csrf_token = t] ELSE session

\* verify_csrf_token(token): the form's token equals session.get('_csrf_token')
\* (both are None when the form has no token and the session has none).
verify_csrf_token(token) == token = session.csrf_token

\* GET /admin/reset-passwords : renders the page of the reset forms.  The
\* template is where csrf_token() is called; draw |-> None is a rendering
\* that does not call it.
AdminResetPasswords(draw) ==
  /\ IF ~AdminRequired THEN AdminRedirect("admin_reset_passwords", None)
     ELSE /\ session' = IF draw = None THEN session ELSE generate_csrf_token(draw)
          /\ resp' = Response("admin_reset_passwords", "reset_page", None,
                              [NoFields EXCEPT !.csrf_token = session'.csrf_token])
          /\ UNCHANGED <<users, login_logs>>
  /\ UNCHANGED codecVars

\* Shortest password the reset forms accept.
MinResetPasswordLen == 4

\* Passwords typed into the reset forms.
ResetPasswords == {"", "abc", "abcd", "abcdef"}

\* The tokens a reset form can carry: none, or a token value.
FormCsrfTokens == {None} \cup CsrfTokens

\* users after reset_all_passwords: UPDATE users SET password = ?.
UsersAfterResetAll(new_password) ==
  [m \in DOMAIN users |-> [users[m] EXCEPT !.password = new_password]]

\* POST /admin/bulk-reset-passwords
AdminBulkResetPasswords(csrf_token, default_password) ==
  /\ LET f == [NoFields EXCEPT !.method = "POST", !.csrf_token = csrf_token,
                               !.newpw = default_password]
     IN IF ~AdminRequired THEN AdminRedirect("admin_bulk_reset_passwords", None)
        ELSE IF \/ ~verify_csrf_token(csrf_token)
                \/ Len(default_password) < MinResetPasswordLen
        THEN /\ resp' = Response("admin_bulk_reset_passwords", "redirect_reset", None,
                                 [f EXCEPT !.flash = "error"])
             /\ UNCHANGED <<users, login_logs, session>>
        ELSE /\ users' = UsersAfterResetAll(default_password)
             /\ resp' = Response("admin_bulk_reset_passwords", "redirect_reset", None,
                                 [f EXCEPT !.flash = "success"])
             /\ UNCHANGED <<login_logs, session>>
  /\ UNCHANGED codecVars

\* POST /admin/reset-single-password
AdminResetSinglePassword(csrf_token, member_id, new_password) ==
  /\ LET f == [NoFields EXCEPT !.method = "POST", !.csrf_token = csrf_token,
                               !.newpw = new_password]
     IN IF ~AdminRequired THEN AdminRedirect("admin_reset_single_password", member_id)
        ELSE IF \/ ~verify_csrf_token(csrf_token)
                \/ Len(new_password) < MinResetPasswordLen
        THEN /\ resp' = Response("admin_reset_single_password", "redirect_reset", member_id,
                                 [f EXCEPT !.flash = "error"])
             /\ UNCHANGED <<users, login_logs, session>>
        ELSE /\ users' = UsersAfterPasswordChange(member_id, new_password)
             /\ resp' = Response("admin_reset_single_password", "redirect_reset", member_id,
                                 [f EXCEPT !.flash = IF UserExists(member_id)
                                                     THEN "success" ELSE "error"])
             /\ UNCHANGED <<login_logs, session>>
  /\ UNCHANGED codecVars

\* GET /admin/reload-images : reload_all_images reads the rows that have an
\* image_path (a column not modelled) and calls, for each of them, methods
\* UserDB does not have: the request ends in the 500 handler when there is
\* such a row, and redirects to the user list when there is none.
AdminReloadImages(some_image_path) ==
  /\ IF ~AdminRequired THEN AdminRedirect("admin_reload_images", None)
     ELSE /\ resp' = Response("admin_reload_images",
                              IF some_image_path THEN "error500" ELSE "redirect_users",
                              None, NoFields)
          /\ UNCHANGED <<users, login_logs, session>>
  /\ UNCHANGED codecVars

(***************************************************************************)
(* Specification of the application with the roster administration         *)
(***************************************************************************)

\* The requests of this specification.  The member side is one member's:
\* the login page by token, the default password, and an own-password change.
RosterMember == "M1"

\* Most login-attempt records kept under this specification.
MaxRosterLogs == 2

RosterLogRoom == Len(login_logs) < MaxRosterLogs

RosterLoginRequests ==
  {[method |-> "GET", pw |-> None], [method |-> "POST", pw |-> DefaultPassword]}

RosterChangeForms ==
  {[current |-> DefaultPassword, new |-> "abcdef", confirm |-> "abcdef"]}

RosterAddForms ==
  {[member_id |-> m, password |-> DefaultPassword,
    membership_type |-> "annually", membership_joining_date |-> Today] : m \in MemberIds}

RosterEditRequests ==
  {req \in EditRequests : req.method = "POST" => req.membership_type = "lifetime"}

RosterBulkRequests ==
  {req \in BulkRequests :
     /\ req.raised = {}
     /\ req.method = "POST" =>
          /\ RosterMember \in req.member_ids
          /\ <<req.field, req.value>> \in
                {<<"password", "abcdef">>, <<"member_id", "M1">>,
                 <<"membership_type", "annually">>}}

RosterImportFiles == {file \in ImportFiles : file.xlsx => file.ids = MemberIds}

RosterResetPasswords == {"abc", "abcdef"}

\* GET/POST /secure-login/<token of the member>
RosterSecureLogin(req) ==
  /\ req.method = "POST" => RosterLogRoom
  /\ SecureLogin(TokenFor(RosterMember), req)

\* POST /change-password
RosterChangeOwnPassword(form) ==
  /\ RosterLogRoom
  /\ ChangeOwnPassword(form)

RosterNext ==
  \/ \E req \in RosterLoginRequests : RosterSecureLogin(req)
  \/ \E form \in RosterChangeForms : RosterChangeOwnPassword(form)
  \/ Logout
  \/ \E req \in AdminLoginRequests : AdminLogin(req)
  \/ AdminLogout
  \/ AdminDashboard
  \/ AdminUsers
  \/ \E form \in RosterAddForms : AdminAddUserForm(form)
  \/ \E m \in MemberIds, req \in RosterEditRequests : AdminEditUser(m, req)
  \/ \E req \in RosterBulkRequests : AdminBulkEdit(req)
  \/ \E m \in MemberIds : AdminDeleteUser(m)
  \/ \E file \in RosterImportFiles : AdminImportExcel(file)
  \/ \E draw \in {None} \cup CsrfTokens : AdminResetPasswords(draw)
  \/ \E t \in FormCsrfTokens, p \in RosterResetPasswords : AdminBulkResetPasswords(t, p)
  \/ \E t \in FormCsrfTokens, m \in MemberIds, p \in RosterResetPasswords :
       AdminResetSinglePassword(t, m, p)
  \/ \E m \in MemberIds : AdminViewProfile(m)
  \/ \E b \in BOOLEAN : AdminReloadImages(b)

SpecRoster == Init /\ [][RosterNext]_vars

(***************************************************************************)
(* Specification of the roster edits                                       *)
(***************************************************************************)

\* The forms of the add-user page.
AddForms ==
  {[member_id |-> m, password |-> DefaultPassword,
    membership_type |-> "annually", membership_joining_date |-> d] :
      m \in MemberIds, d \in {"", Today}}

BulkNext ==
  \/ \E req \in AdminLoginRequests : AdminLogin(req)
  \/ AdminLogout
  \/ \E form \in AddForms : AdminAddUserForm(form)
  \/ \E m \in MemberIds, req \in EditRequests : AdminEditUser(m, req)
  \/ \E req \in BulkRequests : AdminBulkEdit(req)
  \/ \E m \in MemberIds : AdminDeleteUser(m)
  \/ \E file \in ImportFiles : AdminImportExcel(file)

SpecBulk == Init /\ [][BulkNext]_vars

(***************************************************************************)
(* Identifiers, tokens and the admin guard under the roster operations     *)
(***************************************************************************)

\* The requests that edit members: the edit form, the bulk-edit form, the
\* two password resets, and a member's own password change.
EditingOps ==
  {"admin_edit_user", "admin_bulk_edit", "admin_reset_single_password",
   "admin_bulk_reset_passwords", "change_own_password"}

\* Every member of before is in after, with the same record.
RecordsKept(before, after) ==
  /\ DOMAIN before \subseteq DOMAIN after
  /\ \A m \in DOMAIN before : after[m] = before[m]

\* C15: a member's identifier is immutable once created: an edit, a bulk
\* edit (whatever the field name and value), a password reset or a member's
\* own password change leaves the set of identifiers as it was; an import or
\* an add-user request keeps every existing member with its record; the set
\* of identifiers grows only by add-user or import and shrinks only by
\* delete-user; and a bulk edit changes no member's password.
C15_IdentifierImmutable ==
  [][/\ resp'.op \in EditingOps => DOMAIN users' = DOMAIN users
     /\ resp'.op \in {"admin_import_excel", "admin_add_user"} => RecordsKept(users, users')
     /\ ~(DOMAIN users' \subseteq DOMAIN users)
          => resp'.op \in {"admin_add_user", "admin_import_excel"}
     /\ ~(DOMAIN users \subseteq DOMAIN users') => resp'.op = "admin_delete_user"
     /\ resp'.op = "admin_bulk_edit"
          => /\ DOMAIN users' = DOMAIN users
             /\ \A m \in DOMAIN users : users'[m].password = users[m].password]_vars

\* A bulk edit of the field 'password' ran over every selected member, all
\* existing, and their passwords are not the value sent.
C15_Witness ==
  /\ resp.op = "admin_bulk_edit"
  /\ resp.kind = "bulk_updated"
  /\ resp.field = "password"
  /\ resp.member_ids = MemberIds
  /\ resp.success_count = Cardinality(MemberIds)
  /\ \A m \in resp.member_ids :
       /\ m \in DOMAIN users
       /\ users[m].password # resp.value

\* The step just taken was a secure-login request with the token minted for m.
IsTokenLogin(m) == resp'.op = "secure_login" /\ resp'.reqtoken = TokenFor(m)

\* C16: a token minted for member m stays valid statelessly: in every state
\* the application reaches (after logins, logouts, failed attempts, password
\* changes and resets, edits, and creation or deletion of members) a
\* secure-login request with that token reaches the password prompt for m
\* while m exists (a GET shows it; a POST shows it again or, with m's
\* password, opens m's session), and ends in MemberNotFound once m is deleted.
C16_TokenStateless ==
  [][\A m \in MemberIds :
       IsTokenLogin(m)
         => IF m \in DOMAIN users
            THEN /\ resp'.member = m
                 /\ resp'.method = "GET" => resp'.kind = "prompt"
                 /\ resp'.method = "POST" =>
                      \/ resp'.kind = "prompt"
                      \/ resp'.kind = "redirect_profile" /\ BoundTo(session', m)
            ELSE resp'.kind = "not_found"]_vars

\* The token reached the prompt of a member whose password was changed,
\* whose record was edited and who has login attempts on record.
C16_Witness ==
  /\ resp.op = "secure_login"
  /\ resp.method = "GET"
  /\ resp.kind = "prompt"
  /\ resp.reqtoken = TokenFor(resp.member)
  /\ resp.member \in DOMAIN users
  /\ users[resp.member].password # DefaultPassword
  /\ users[resp.member].membership_type = "annually"
  /\ Len(login_logs) = MaxRosterLogs

\* The endpoints behind admin_required.
AdminOps ==
  {"admin_dashboard", "admin_users", "admin_add_user", "admin_edit_user",
   "admin_bulk_edit", "admin_delete_user", "admin_import_excel",
   "admin_reset_passwords", "admin_bulk_reset_passwords",
   "admin_reset_single_password", "admin_view_profile", "admin_reload_images"}

\* C20: no roster operation runs for a client without an admin session: a
\* request to any endpoint behind admin_required made without the admin flag
\* is redirected to the admin login and leaves the members, the
\* login-attempt records and the session as they were.
C20_AdminOnly ==
  [][(resp'.op \in AdminOps /\ ~session.is_admin)
       => /\ resp'.kind = "redirect_admin_login"
          /\ users' = users
          /\ login_logs' = login_logs
          /\ session' = session]_vars

\* A logged-in member asked to delete an existing member and was redirected.
C20_Witness ==
  /\ resp.op = "admin_delete_user"
  /\ resp.kind = "redirect_admin_login"
  /\ resp.member \in DOMAIN users
  /\ session.logged_in
  /\ ~session.is_admin

(***************************************************************************)
(* The outcome of a bulk update                                            *)
(***************************************************************************)

\* The step just taken ran bulk_update_users.
IsBulkUpdate == resp'.op = "admin_bulk_edit" /\ resp'.kind = "bulk_updated"

\* The selected identifiers that match a member and whose UPDATE ran.
BulkMatched == {m \in resp'.member_ids : m \in DOMAIN users /\ m \notin resp'.raised}

\* C18 as stated: success_count is the number of selected identifiers that
\* match an existing member and whose row was updated, and every selected
\* identifier that fails or matches no row has an entry in errors.
C18_Original ==
  [][IsBulkUpdate
       => /\ resp'.success_count = Cardinality(BulkMatched)
          /\ \A m \in resp'.member_ids :
               (m \in resp'.raised \/ m \notin DOMAIN users) => m \in resp'.errors]_vars

\* C18: bulk update reports its outcome per record: success_count is the
\* number of selected identifiers that match an existing member and whose
\* UPDATE ran without raising, and errors has an entry for exactly the
\* selected identifiers whose record raised; an identifier that matches no
\* row is counted nowhere: not in success_count and not in errors.
C18_BulkOutcome ==
  [][IsBulkUpdate
       => /\ resp'.success_count = Cardinality(BulkMatched)
          /\ resp'.errors = resp'.raised
          /\ \A m \in resp'.member_ids :
               (m \notin DOMAIN users /\ m \notin resp'.raised) => m \notin resp'.errors]_vars

\* A bulk update selected a member and an identifier with no row: one
\* success, no error entry.
C18_Witness ==
  /\ resp.op = "admin_bulk_edit"
  /\ resp.kind = "bulk_updated"
  /\ resp.member_ids = MemberIds
  /\ resp.raised = {}
  /\ resp.success_count = 1
  /\ resp.errors = {}
  /\ Cardinality(DOMAIN users) = 1

\* C19: bulk update is best-effort per record: when the UPDATE of a selected
\* record raises, the call is not aborted: every other selected existing
\* record gets its update, the failing records stay as they were, and each
\* failing record has one entry in errors.
C19_BestEffort ==
  [][(resp'.op = "admin_bulk_edit" /\ resp'.raised # {})
       => /\ resp'.kind = "bulk_updated"
          /\ DOMAIN users' = DOMAIN users
          /\ \A m \in DOMAIN users :
               users'[m] = IF m \in resp'.member_ids \ resp'.raised
                           THEN BulkUpdatedRow(users[m], resp'.field, resp'.value)
                           ELSE users[m]
          /\ resp'.errors = resp'.raised
          /\ resp'.success_count = Cardinality(BulkMatched)]_vars

\* One of two selected members raised; the other has the new renewal date,
\* the failing one has not.
C19_Witness ==
  /\ resp.op = "admin_bulk_edit"
  /\ resp.kind = "bulk_updated"
  /\ resp.field = "membership_renewal_date"
  /\ resp.member_ids = MemberIds
  /\ Cardinality(resp.raised) = 1
  /\ resp.errors = resp.raised
  /\ resp.success_count = 1
  /\ DOMAIN users = MemberIds
  /\ \A m \in MemberIds :
       (users[m].membership_renewal_date = resp.value) <=> (m \notin resp.raised)

(***************************************************************************)
(* The pages that carry a login token                                      *)
(***************************************************************************)

\* The search terms of the QR page: none, or a member identifier.
QrSearches == {""} \cup MemberIds

\* The members generate_qr_codes lists for a search term: all of them, or
\* those search_users matches.
QrListed(search_term) ==
  IF search_term = "" THEN DOMAIN users ELSE {m \in DOMAIN users : m = search_term}

\* GET /generate-qr-codes : the route has no guard; for every member listed,
\* generate_qr_code mints the token and the page shows its login URL and QR
\* code.
GenerateQrCodes(search_term) ==
  /\ resp' = Response("generate_qr_codes", "qr_page", None,
                      [NoFields EXCEPT
                         !.value = search_term,
                         !.flash = IF QrListed(search_term) = {} THEN "error" ELSE None,
                         !.qr_codes = {dumps(SECRET_TOKEN_KEY, m) : m \in QrListed(search_term)}])
  /\ UNCHANGED <<users, login_logs, session>>
  /\ UNCHANGED codecVars

\* The member requests of this specification: the login page and passwords.
QrLoginRequests ==
  {[method |-> "GET", pw |-> None], [method |-> "POST", pw |-> DefaultPassword]}

QrNext ==
  \/ \E m \in MemberIds, req \in QrLoginRequests : Login(m, req)
  \/ \E m \in MemberIds : UserProfile(m)
  \/ Logout
  \/ \E req \in AdminLoginRequests : AdminLogin(req)
  \/ AdminLogout
  \/ \E m \in MemberIds : AdminDeleteUser(m)
  \/ \E m \in MemberIds : AdminViewProfile(m)
  \/ \E search_term \in QrSearches : GenerateQrCodes(search_term)

SpecQr == Init /\ [][QrNext]_vars

\* The response of the step just taken carries the login token of m.
TokenReturned(m) == resp'.token = TokenFor(m) \/ TokenFor(m) \in resp'.qr_codes

\* The client may have m's token: it holds an admin session or a member
\* session bound to m.
MayHaveToken(m) == session.is_admin \/ BoundTo(session, m)

\* C21: a login token for member m is returned only to a client that holds
\* an admin session or a member session bound to m: no response to an
\* anonymous client, or to a member session bound to another member, carries
\* a token for m.
C21_Original ==
  [][\A m \in MemberIds : TokenReturned(m) => MayHaveToken(m)]_vars

\* What holds of the two profile pages: they carry m's token only for an
\* admin session or a member session bound to m.
C21_ProfilePagesScoped ==
  [][\A m \in MemberIds :
       (TokenReturned(m) /\ resp'.op # "generate_qr_codes") => MayHaveToken(m)]_vars

(***************************************************************************)
(* The reset forms, the renewal date of lifetime members, and logout       *)
(***************************************************************************)

\* The step just taken was a password-reset request (single or bulk) that
\* changed a stored password.
ResetChangedPasswords ==
  /\ resp'.op \in {"admin_bulk_reset_passwords", "admin_reset_single_password"}
  /\ \E m \in DOMAIN users : users'[m].password # users[m].password

\* C22: an admin password-reset request (single or bulk) changes stored
\* passwords only if it carries a CSRF token equal to one generated and
\* stored in the same session; a request without a token, or in a session
\* that has none, changes no password.
C22_Original ==
  [][ResetChangedPasswords
       => /\ resp'.csrf_token # None
          /\ session.csrf_token # None
          /\ resp'.csrf_token = session.csrf_token]_vars

\* What holds of the reset requests: passwords change only when the form's
\* token and the session's are equal, both absent included.
C22_TokenEqualsSession ==
  [][ResetChangedPasswords => resp'.csrf_token = session.csrf_token]_vars

\* C23: every member whose membership type is 'lifetime' has the renewal
\* date '2099-12-31', in every state reached through add-user, edit-user,
\* bulk edit and import.
C23_Original ==
  \A m \in DOMAIN users :
    users[m].membership_type = "lifetime"
      => users[m].membership_renewal_date = LifetimeRenewal

\* What holds of the requests other than a bulk edit of the renewal date:
\* they leave every lifetime member that had the far-future renewal date
\* with it, and give it to every member they make a lifetime member.
C23_KeptByOtherRequests ==
  [][~(resp'.op = "admin_bulk_edit" /\ resp'.field = "membership_renewal_date")
       => \A m \in DOMAIN users' :
            (/\ users'[m].membership_type = "lifetime"
             /\ users'[m].membership_renewal_date # LifetimeRenewal)
              => /\ m \in DOMAIN users
                 /\ users[m].membership_type = "lifetime"
                 /\ users[m].membership_renewal_date # LifetimeRenewal]_vars

\* C24: a member logout request ends with a redirect to a login page from
\* every session state, the session without a member identifier included;
\* it never ends in an internal error.
C24_Original ==
  [][resp'.op = "logout" => resp'.kind = "redirect_login"]_vars

\* What holds of logout: it ends in an internal error exactly when the
\* session has no member identifier, and the session is cleared either way.
C24_ErrorWithoutMember ==
  [][resp'.op = "logout"
       => /\ resp'.kind = IF session.member_id = None THEN "error500" ELSE "redirect_login"
          /\ session' = EmptySession]_vars

====
